---- MODULE Spec2Model ----
(***************************************************************************)
(* Model of the Trismegistos harvesters.                                   *)
(*   - the Direct harvester  (scrape_trismegistos_geojson.py: main,        *)
(*     iter_ids, fetch_one / try_url, save_json, check_robots)             *)
(*   - the Sectioned scrapers (scrapping/8.py, scrapping/scrapapyrus.py,   *)
(*     scrapping/"scraper version temporaire 1.py")                        *)
(* The variable script says which of the four programs is running.        *)
(***************************************************************************)
EXTENDS Integers, Sequences, FiniteSets, TLC

(* ------------------------------- bounds -------------------------------- *)
\* largest record id of the modelled id space 1..MaxId
MaxId == 2

Ids == 1..MaxId

(* --------------------------- program constants ------------------------- *)
\* seconds of the captcha countdown, range(40, 0, -1)
GateSeconds == 40

Scripts == {"geojson", "8", "scrapapyrus", "temporaire"}
Methods == {"auto", "download", "view"}

(* ------------------------------ JSON values ---------------------------- *)
\* Python values a response body can parse to
None == [kind |-> "None", keys |-> {}]
Dict(K) == [kind |-> "dict", keys |-> K]
Values == {None, Dict({}), Dict({"id"}), Dict({"error"})}

JSONDecodeError == [kind |-> "JSONDecodeError", keys |-> {}]

\* text is a sequence of tokens; json.dump(data) : the serialisation of a value
KeyOf(d) == CHOOSE k \in d.keys : TRUE

Dump(d) ==
    IF d.kind = "None" THEN <<"null">>
    ELSE IF d.keys = {} THEN <<"{", "}">>
    ELSE <<"{", KeyOf(d), "}">>

\* resp.json() : the value whose serialisation is the body, else a decode error
Parse(body) ==
    IF \E v \in Values : Dump(v) = body
    THEN CHOOSE v \in Values : Dump(v) = body
    ELSE JSONDecodeError

\* bodies the endpoint may answer with; an error status comes with an HTML
\* page or with a JSON object
Bodies == { <<"{", "id", "}">>, <<"{", "}">>, <<"{", "error", "}">>,
            <<"{", "id">>, <<"<html>">>, <<"null">> }

Responses ==
    {r \in [status : {200, 404}, ctjson : BOOLEAN, body : Bodies] :
        r.status = 200 \/ r.body \in {<<"{", "id", "}">>, <<"<html>">>}}

NoResp == [status |-> 0, ctjson |-> FALSE, body |-> <<>>]

(* ------------------------------ file system ---------------------------- *)
Absent == <<"ENOENT">>

\* a text that is the complete serialisation of some value
ValidJSON(text) == \E v \in Values : Dump(v) = text

VARIABLES
    script,     \* which program runs
    args,       \* parsed command line of the Direct harvester / range of a scraper
    run,        \* 1: the invocation on a fresh directory, 2: its re-invocation
    proc,       \* "running", "done", "exit2", "killed", "raised"
    pc,         \* position in the running program
    it,         \* next value of the id generator
    tm_id,      \* id being processed
    ok, missing, skipped, failed,
    data,       \* result of fetch_one
    resp,       \* response held by try_url (a local: gone once fetch_one has returned)
    wpos,       \* tokens of the serialisation already written by json.dump
    fs,         \* output directory: dir, canon[id] = id_<N>.json, part[id] = .id_<N>.json.part
    trace,      \* Direct: requests and sleeps made for the current id, in order;
                \* scrapers: page loads, sleeps, error prints and driver.quit of
                \* the run, in order
    driver,     \* "none", "open", "quit": the Selenium session
    countdown,  \* seconds of the captcha pause still to sleep
    results,    \* results dict of a scraper, keyed by str(i)
    item_data,  \* record being built for the current id
    soup,       \* document parsed from driver.page_source after the last load
    si,         \* number of secondary sections already done for the current id
    challenge,  \* "pending", "passed": the captcha shown in the browser window
    document,   \* extractors on their own: the parsed page handed to the extractor
    label_str,  \* extractors on their own: the label looked for
    value       \* extractors on their own: what the extractor returned

vars == <<script, args, run, proc, pc, it, tm_id, ok, missing, skipped, failed,
          data, resp, wpos, fs, trace, driver, countdown, results, item_data, soup, si,
          challenge, document, label_str, value>>

\* arguments and result of an extractor called on its own
xvars == <<document, label_str, value>>
\* the browser window in front of the user, which no program reads or writes
evars == <<challenge>>
\* state of the scrapers, untouched by the Direct harvester
svars == <<driver, countdown, results, item_data, soup, si, evars, xvars>>
\* state of the Direct harvester, untouched by the scrapers
dvars == <<run, ok, missing, skipped, failed, data, resp, wpos, fs, evars, xvars>>

counters == <<ok, missing, skipped, failed>>

(* ------------------------------- iter_ids ------------------------------ *)
Step(start, end) == IF end >= start THEN 1 ELSE -1

\* range(start, end + step, step) is exhausted at value i
Exhausted(i) ==
    LET step == Step(args.start, args.end)
        stop == args.end + step
    IN IF step > 0 THEN i >= stop ELSE i <= stop

(* ------------------------------- fetch_one ----------------------------- *)
IsJsonResponse(r) ==
    r.ctjson \/ (Len(r.body) > 0 /\ r.body[1] = "{")

\* slip: the status code is not looked at
TryUrl_AnyStatus(r) ==
    IF ~IsJsonResponse(r) THEN None
    ELSE LET d == Parse(r.body) IN
         IF d = JSONDecodeError THEN None
         ELSE IF d.kind = "dict"
                 /\ (\E k \in {"error", "message"} : k \in d.keys)
                 /\ d.keys = {}
              THEN None
              ELSE d

\* body of try_url after session.get returned r
TryUrl(r) ==
    IF r.status # 200 THEN None
    ELSE IF ~IsJsonResponse(r) THEN None
    ELSE LET d == Parse(r.body) IN
         IF d = JSONDecodeError THEN None
         ELSE IF d.kind = "dict"
                 /\ (\E k \in {"error", "message"} : k \in d.keys)
                 /\ d.keys = {}
              THEN None
              ELSE d

\* slip: mode auto starts with the plain view request
FirstWithDl_ViewFirst(method) == method = "download"

\* slip: every request carries the dl flag
FirstWithDl_Always(method) == TRUE

\* the dl flag of the first request of fetch_one
FirstWithDl(method) == method # "view"

(* --------------------------------- Init -------------------------------- *)
EmptyFs == [dir |-> FALSE, canon |-> [n \in Ids |-> Absent], part |-> [n \in Ids |-> Absent]]

NoSoup == [id |-> 0, section |-> "none", marker |-> "none"]
EmptyDict == [k \in {} |-> None]

\* strings are sequences of tokens (words, ":", " ", the no-break space);
\* a value an extractor returns is None, a str or a list of str
NoString == [kind |-> "None", text |-> <<>>]
Str(t) == [kind |-> "str", text |-> t]
List(items) == [kind |-> "list", text |-> items]

Init ==
    /\ script \in Scripts
    /\ IF script = "geojson"
       THEN /\ args \in [start : Ids, end : Ids, resume : BOOLEAN, method : Methods,
                         check_robots : BOOLEAN]
            /\ pc = "robots"
            /\ driver = "none"
       ELSE /\ args \in [start : Ids, end : Ids]
            /\ pc = "gate_load"
            /\ driver = "open"
    /\ countdown = 0
    /\ results = EmptyDict
    /\ item_data = EmptyDict
    /\ soup = NoSoup
    /\ si = 0
    /\ run = 1
    /\ proc = "running"
    /\ it = args.start
    /\ tm_id = 0
    /\ ok = 0 /\ missing = 0 /\ skipped = 0 /\ failed = 0
    /\ data = None
    /\ resp = NoResp
    /\ wpos = 0
    /\ fs = EmptyFs
    /\ trace = <<>>
    /\ challenge = "pending"
    /\ document = <<>>
    /\ label_str = ""
    /\ value = NoString

Direct == script = "geojson" /\ proc = "running"

(* ----------------------------- check_robots ---------------------------- *)
\* slip: a robots.txt that cannot be read blocks the run
CheckRobots_FailClosed ==
    /\ Direct /\ pc = "robots"
    /\ \E outcome \in {"allow", "disallow", "error"} :
         LET allowed == outcome = "allow"
         IN IF args.check_robots /\ ~allowed
            THEN /\ proc' = "exit2"
                 /\ pc' = pc
                 /\ trace' = Append(trace, <<"robots", outcome>>)
            ELSE /\ proc' = proc
                 /\ pc' = "loop"
                 /\ trace' = IF args.check_robots
                             THEN Append(trace, <<"robots", outcome>>)
                             ELSE trace
    /\ args' = [args EXCEPT !.check_robots = FALSE]
    /\ UNCHANGED <<svars, script, run, it, tm_id, counters, data, resp, wpos, fs>>

\* main, line 169: outcome of reading robots.txt is "allow", "disallow" or "error";
\* args.check_robots is read here and nowhere else, it is cleared once read
CheckRobots ==
    /\ Direct /\ pc = "robots"
    /\ \E outcome \in {"allow", "disallow", "error"} :
         LET allowed == IF outcome = "error" THEN TRUE ELSE outcome = "allow"
         IN IF args.check_robots /\ ~allowed
            THEN /\ proc' = "exit2"
                 /\ pc' = pc
                 /\ trace' = Append(trace, <<"robots", outcome>>)
            ELSE /\ proc' = proc
                 /\ pc' = "loop"
                 /\ trace' = IF args.check_robots
                             THEN Append(trace, <<"robots", outcome>>)
                             ELSE trace
    /\ args' = [args EXCEPT !.check_robots = FALSE]
    /\ UNCHANGED <<svars, script, run, it, tm_id, counters, data, resp, wpos, fs>>

(* ------------------------------ main loop ------------------------------ *)
\* slip: --resume is ignored
ShouldSkip_Never(id) == FALSE

\* slip: a leftover temporary file counts as a finished download
ShouldSkip_PartToo(id) == args.resume /\ (fs.canon[id] # Absent \/ fs.part[id] # Absent)

\* slip: the existence test looks at the temporary sibling
ShouldSkip_TmpOnly(id) == args.resume /\ fs.part[id] # Absent

\* args.resume and outpath.exists(), line 181
ShouldSkip(id) == args.resume /\ fs.canon[id] # Absent

\* for tm_id in iter_ids(...): resume check, lines 179-184; loop exit, line 204
LoopNext ==
    /\ Direct /\ pc = "loop"
    /\ IF Exhausted(it)
       THEN /\ proc' = "done"
            /\ UNCHANGED <<pc, it, tm_id, counters, trace>>
       ELSE /\ it' = it + Step(args.start, args.end)
            /\ tm_id' = it
            /\ trace' = <<>>
            /\ proc' = proc
            /\ IF ShouldSkip(it)
               THEN /\ skipped' = skipped + 1
                    /\ pc' = "loop"
                    /\ UNCHANGED <<ok, missing, failed>>
               ELSE /\ pc' = "fetch1"
                    /\ UNCHANGED counters
    /\ data' = None
    /\ resp' = NoResp
    /\ UNCHANGED <<svars, script, args, run, wpos, fs>>

\* slip: a missing record goes on to the next id without the delay
Route_MissNoDelay(d) ==
    IF d = None
    THEN /\ missing' = missing + 1
         /\ pc' = "loop"
         /\ UNCHANGED <<ok, skipped, failed>>
    ELSE /\ pc' = "save_mkdir"
         /\ UNCHANGED counters

\* what main does with the value returned by fetch_one, lines 194-200
Route(d) ==
    IF d = None
    THEN /\ missing' = missing + 1
         /\ pc' = "sleep"
         /\ UNCHANGED <<ok, skipped, failed>>
    ELSE /\ pc' = "save_mkdir"
         /\ UNCHANGED counters

\* slip: a network error is booked like a record that does not exist
NetworkError_AsMissing ==
    /\ missing' = missing + 1
    /\ pc' = "sleep"
    /\ resp' = NoResp
    /\ UNCHANGED <<ok, skipped, failed, data>>

\* slip: the except branch forgets failed += 1
NetworkError_Uncounted ==
    /\ pc' = "sleep_exc"
    /\ resp' = NoResp
    /\ UNCHANGED <<ok, missing, skipped, failed, data>>

\* slip: an exception of the first request of mode auto is taken for a None
NetworkError_FallsBack ==
    IF pc = "fetch1" /\ args.method = "auto"
    THEN /\ pc' = "fetch2"
         /\ resp' = NoResp
         /\ UNCHANGED <<counters, data>>
    ELSE /\ failed' = failed + 1
         /\ pc' = "sleep_exc"
         /\ resp' = NoResp
         /\ UNCHANGED <<ok, missing, skipped, data>>

\* except requests.RequestException, lines 188-192
NetworkError ==
    /\ failed' = failed + 1
    /\ pc' = "sleep_exc"
    /\ resp' = NoResp
    /\ UNCHANGED <<ok, missing, skipped, data>>

\* first try_url of fetch_one (the only one in modes download and view)
Fetch1 ==
    /\ Direct /\ pc = "fetch1"
    /\ trace' = Append(trace, <<"get", tm_id, FirstWithDl(args.method)>>)
    /\ \/ NetworkError
       \/ \E r \in Responses :
            /\ resp' = r
            /\ data' = TryUrl(r)
            /\ IF args.method = "auto" /\ TryUrl(r) = None
               THEN /\ pc' = "fetch2"
                    /\ UNCHANGED counters
               ELSE Route(TryUrl(r))
    /\ UNCHANGED <<svars, script, args, run, proc, it, tm_id, wpos, fs>>

\* mode auto: try_url(with_dl=False) after the download request gave None
Fetch2 ==
    /\ Direct /\ pc = "fetch2"
    /\ trace' = Append(trace, <<"get", tm_id, FALSE>>)
    /\ \/ NetworkError
       \/ \E r \in Responses :
            /\ resp' = r
            /\ data' = TryUrl(r)
            /\ Route(TryUrl(r))
    /\ UNCHANGED <<svars, script, args, run, proc, it, tm_id, wpos, fs>>

(* ------------------------------- save_json ----------------------------- *)
\* outdir.mkdir(parents=True, exist_ok=True)
SaveMkdir ==
    /\ Direct /\ pc = "save_mkdir"
    /\ fs' = [fs EXCEPT !.dir = TRUE]
    /\ pc' = "save_open"
    /\ resp' = NoResp
    /\ UNCHANGED <<svars, script, args, run, proc, it, tm_id, counters, data, wpos, trace>>

\* slip: the target itself is opened for writing
SaveOpen_InPlace ==
    /\ Direct /\ pc = "save_open"
    /\ fs' = [fs EXCEPT !.canon[tm_id] = <<>>, !.part[tm_id] = <<>>]
    /\ wpos' = 0
    /\ pc' = "save_write"
    /\ UNCHANGED <<svars, script, args, run, proc, it, tm_id, counters, data, resp, trace>>

\* tmp.open("w"): creates or truncates the temporary sibling
SaveOpen ==
    /\ Direct /\ pc = "save_open"
    /\ fs' = [fs EXCEPT !.part[tm_id] = <<>>]
    /\ wpos' = 0
    /\ pc' = "save_write"
    /\ UNCHANGED <<svars, script, args, run, proc, it, tm_id, counters, data, resp, trace>>

\* json.dump(data, f): the serialisation reaches the file token by token;
\* leaving the with block closes the file
SaveWrite ==
    /\ Direct /\ pc = "save_write"
    /\ IF wpos < Len(Dump(data))
       THEN /\ fs' = [fs EXCEPT !.part[tm_id] = Append(@, Dump(data)[wpos + 1])]
            /\ wpos' = wpos + 1
            /\ pc' = pc
       ELSE /\ pc' = "save_replace"
            /\ UNCHANGED <<fs, wpos>>
    /\ UNCHANGED <<svars, script, args, run, proc, it, tm_id, counters, data, resp, trace>>

\* slip: the id is counted ok although the temporary file was not renamed
SaveReplace_NoRename ==
    /\ Direct /\ pc = "save_replace"
    /\ ok' = ok + 1
    /\ pc' = "sleep"
    /\ wpos' = 0
    /\ UNCHANGED <<svars, script, args, run, proc, it, tm_id, missing, skipped, failed, data, resp,
                   trace, fs>>

\* tmp.replace(path); back in main: ok += 1
SaveReplace ==
    /\ Direct /\ pc = "save_replace"
    /\ fs' = [fs EXCEPT !.canon[tm_id] = fs.part[tm_id], !.part[tm_id] = Absent]
    /\ ok' = ok + 1
    /\ pc' = "sleep"
    /\ wpos' = 0
    /\ UNCHANGED <<svars, script, args, run, proc, it, tm_id, missing, skipped, failed, data, resp, trace>>

\* the memory of a process that died is lost; an open file is closed as it is
Forget ==
    /\ pc' = "robots"
    /\ it' = args.start
    /\ tm_id' = 0
    /\ ok' = 0 /\ missing' = 0 /\ skipped' = 0 /\ failed' = 0
    /\ data' = None
    /\ resp' = NoResp
    /\ wpos' = 0
    /\ trace' = <<>>

\* an OSError in save_json (disk full, permission) is caught nowhere in main:
\* the traceback ends the process
SaveRaises ==
    /\ Direct /\ pc \in {"save_mkdir", "save_open", "save_write", "save_replace"}
    /\ proc' = "raised"
    /\ Forget
    /\ UNCHANGED <<svars, script, args, run, fs>>

\* time.sleep(args.delay), line 202 and line 191
Sleep ==
    /\ Direct /\ pc \in {"sleep", "sleep_exc"}
    /\ trace' = Append(trace, <<"sleep", tm_id>>)
    /\ pc' = "loop"
    /\ resp' = NoResp
    /\ UNCHANGED <<svars, script, args, run, proc, it, tm_id, counters, data, wpos, fs>>

(* ------------------------- interruption, restart ----------------------- *)
\* the process is killed from outside at any point of a run: its memory is
\* lost, the files stay
Kill ==
    /\ Direct
    /\ proc' = "killed"
    /\ Forget
    /\ UNCHANGED <<svars, script, args, run, fs>>

\* the same command is given a second time on the same output directory
\* (with or without --no-check-robots)
Restart ==
    /\ script = "geojson" /\ proc # "running"
    /\ run = 1
    /\ run' = 2
    /\ \E c \in BOOLEAN : args' = [args EXCEPT !.check_robots = c]
    /\ proc' = "running"
    /\ pc' = "robots"
    /\ it' = args.start
    /\ tm_id' = 0
    /\ ok' = 0 /\ missing' = 0 /\ skipped' = 0 /\ failed' = 0
    /\ data' = None
    /\ resp' = NoResp
    /\ wpos' = 0
    /\ trace' = <<>>
    /\ UNCHANGED <<svars, script, fs>>

(* ============================ the scrapers ============================= *)
Scraper == script # "geojson" /\ proc = "running"

Markers == {"none", "Page not found", "No record found"}

\* str(e) of the exceptions Selenium and BeautifulSoup raise
Messages == {"timeout"}

\* item_data[k] = v, adding the key when it is new
Put(d, k, v) == [x \in DOMAIN d \cup {k} |-> IF x = k THEN v ELSE d[x]]

\* keys of item_data that hold a list
ListFields == {"Publications", "Collections", "Archive", "People", "Places", "Irregularities"}

\* value an extractor returns for key k on document sp: it is marked with
\* the key, the id and the section of the document it was read from
Extracted(sp, k) ==
    IF k \in ListFields THEN List(<<k, sp.id, sp.section>>) ELSE Str(<<k, sp.id, sp.section>>)

\* keys assigned from the primary page, in the order of the assignments
MainFields(sc) ==
    IF sc = "8"
    THEN <<"Language", "Content", "Date", "Provenance", "Material", "Publications", "GreekText">>
    ELSE IF sc = "scrapapyrus"
    THEN <<"Language", "Content", "Date", "Provenance", "Material", "Publications",
           "Collections", "Archive", "GreekText">>
    ELSE <<"Date", "Provenance", "Material", "Publications", "GreekText">>

\* slip: the Places page is asked for before the People page
Sections_PlacesFirst(sc) ==
    IF sc = "8" THEN <<"people">>
    ELSE IF sc = "scrapapyrus" THEN <<"places", "people", "text-irregularities">>
    ELSE <<>>

\* URL fragments loaded after the primary page, in order
Sections(sc) ==
    IF sc = "8" THEN <<"people">>
    ELSE IF sc = "scrapapyrus" THEN <<"people", "places", "text-irregularities">>
    ELSE <<>>

\* key of item_data filled from a section
SectionKey(sec) ==
    IF sec = "people" THEN "People"
    ELSE IF sec = "places" THEN "Places"
    ELSE "Irregularities"

\* the item_data literal built at the top of the loop body
InitItem(sc, i) ==
    IF sc = "8"
    THEN [id |-> i, url |-> <<"text", i>>, Language |-> NoString, Content |-> NoString,
          Date |-> NoString, Provenance |-> NoString, Material |-> NoString, Publications |-> List(<<>>),
          GreekText |-> NoString, People |-> List(<<>>), Status |-> "OK"]
    ELSE IF sc = "scrapapyrus"
    THEN [id |-> i, url |-> <<"text", i>>, Language |-> NoString, Content |-> NoString,
          Date |-> NoString, Provenance |-> NoString, Material |-> NoString, Archive |-> List(<<>>),
          Collections |-> List(<<>>), Publications |-> List(<<>>), GreekText |-> NoString,
          People |-> List(<<>>), Places |-> List(<<>>), Irregularities |-> List(<<>>)]
    ELSE [id |-> i, url |-> <<"text", i>>, Date |-> NoString, Provenance |-> NoString,
          Material |-> NoString, Publications |-> List(<<>>), GreekText |-> NoString, Status |-> "OK"]

\* the first k assignments of the primary page have been made
AssignMain(d, sc, sp, k) ==
    [x \in DOMAIN d |->
        IF \E j \in 1..k : MainFields(sc)[j] = x THEN Extracted(sp, x) ELSE d[x]]

\* except Exception as e: at the record boundary (the print goes to trace)
ExceptRecord(d, sc, msg) ==
    IF sc = "scrapapyrus" THEN d
    ELSE Put(Put(d, "Status", "Error"), "Error", msg)

\* the primary page carries a not-found marker
MarkNotFound(d, sc) ==
    IF sc = "scrapapyrus" THEN d ELSE [d EXCEPT !["Status"] = "Not Found"]

\* driver.get(base_url + "1") inside the outer try
GateLoad ==
    /\ Scraper /\ pc = "gate_load"
    /\ trace' = Append(trace, <<"load", 1, "gate">>)
    /\ \/ /\ pc' = "gate_wait"
          /\ countdown' = GateSeconds
       \/ /\ pc' = "critical"
          /\ UNCHANGED countdown
    /\ UNCHANGED <<dvars, script, args, proc, it, tm_id, driver, results, item_data, soup, si>>

\* "Validez le Captcha SVP.": the user passes the challenge while the
\* countdown runs, or does not
SolveChallenge ==
    /\ Scraper /\ pc = "gate_wait"
    /\ challenge = "pending"
    /\ challenge' = "passed"
    /\ UNCHANGED <<script, args, run, proc, pc, it, tm_id, counters, data, resp, wpos, fs, trace,
                   driver, countdown, results, item_data, soup, si, xvars>>

\* slip: the id loop starts without the countdown
GateWait_NoWait ==
    /\ Scraper /\ pc = "gate_wait"
    /\ pc' = "loop"
    /\ it' = args.start
    /\ UNCHANGED countdown
    /\ UNCHANGED <<dvars, script, args, proc, tm_id, trace, driver, results, item_data, soup, si>>

\* slip: an event wait, over as soon as the challenge is passed
GateWait_UntilPassed ==
    /\ Scraper /\ pc = "gate_wait"
    /\ IF countdown > 0 /\ challenge = "pending"
       THEN /\ countdown' = countdown - 1
            /\ UNCHANGED <<pc, it>>
       ELSE /\ pc' = "loop"
            /\ it' = args.start
            /\ UNCHANGED countdown
    /\ UNCHANGED <<dvars, script, args, proc, tm_id, trace, driver, results, item_data, soup, si>>

\* for i in range(40, 0, -1): time.sleep(1); then the id loop starts
GateWait ==
    /\ Scraper /\ pc = "gate_wait"
    /\ IF countdown > 0
       THEN /\ countdown' = countdown - 1
            /\ UNCHANGED <<pc, it>>
       ELSE /\ pc' = "loop"
            /\ it' = args.start
            /\ UNCHANGED countdown
    /\ UNCHANGED <<dvars, script, args, proc, tm_id, trace, driver, results, item_data, soup, si>>

\* for i in range(start_index, end_index + 1): item_data = {...}
ScrapeNext ==
    /\ Scraper /\ pc = "loop"
    /\ IF it >= args.end + 1
       THEN /\ pc' = "finally"
            /\ UNCHANGED <<it, tm_id, item_data>>
       ELSE /\ tm_id' = it
            /\ it' = it + 1
            /\ item_data' = InitItem(script, it)
            /\ pc' = "main_load"
    /\ si' = 0
    /\ soup' = NoSoup
    /\ UNCHANGED <<dvars, script, args, proc, trace, driver, countdown, results>>

\* driver.get(url_main); time.sleep(...); soup = BeautifulSoup(driver.page_source)
MainLoad ==
    /\ Scraper /\ pc = "main_load"
    /\ \/ \E m \in Markers :
            /\ soup' = [id |-> tm_id, section |-> "main", marker |-> m]
            /\ trace' = trace \o << <<"load", tm_id, "main">>, <<"sleep", tm_id, "main">> >>
            /\ pc' = "main_extract"
            /\ UNCHANGED item_data
       \/ \E msg \in Messages :
            /\ item_data' = ExceptRecord(item_data, script, msg)
            /\ trace' = trace \o << <<"load", tm_id, "main">>, <<"error", tm_id, msg>> >>
            /\ pc' = "store"
            /\ UNCHANGED soup
    /\ UNCHANGED <<dvars, script, args, proc, it, tm_id, driver, countdown, results, si>>

\* the not-found test and the extractions from the primary page
MainExtract ==
    /\ Scraper /\ pc = "main_extract"
    /\ IF soup.marker # "none"
       THEN /\ item_data' = MarkNotFound(item_data, script)
            /\ pc' = "store"
            /\ UNCHANGED trace
       ELSE \E k \in 0..Len(MainFields(script)) :
              IF k < Len(MainFields(script))
              THEN \E msg \in Messages :
                     /\ item_data' = ExceptRecord(AssignMain(item_data, script, soup, k), script, msg)
                     /\ trace' = Append(trace, <<"error", tm_id, msg>>)
                     /\ pc' = "store"
              ELSE /\ item_data' = AssignMain(item_data, script, soup, k)
                   /\ pc' = IF Len(Sections(script)) > 0 THEN "section_load" ELSE "store"
                   /\ UNCHANGED trace
    /\ UNCHANGED <<dvars, script, args, proc, it, tm_id, driver, countdown, results, soup, si>>

\* driver.get(url#section); time.sleep(1.5); soup = BeautifulSoup(driver.page_source)
SectionLoad ==
    /\ Scraper /\ pc = "section_load"
    /\ LET sec == Sections(script)[si + 1] IN
       \/ /\ soup' = [id |-> tm_id, section |-> sec, marker |-> "none"]
          /\ trace' = trace \o << <<"load", tm_id, sec>>, <<"sleep", tm_id, sec>> >>
          /\ pc' = "section_extract"
          /\ UNCHANGED item_data
       \/ \E msg \in Messages :
            /\ item_data' = ExceptRecord(item_data, script, msg)
            /\ trace' = trace \o << <<"load", tm_id, sec>>, <<"error", tm_id, msg>> >>
            /\ pc' = "store"
            /\ UNCHANGED soup
    /\ UNCHANGED <<dvars, script, args, proc, it, tm_id, driver, countdown, results, si>>

\* item_data[key] = extract_...(soup) for the section just loaded
SectionExtract ==
    /\ Scraper /\ pc = "section_extract"
    /\ LET sec == Sections(script)[si + 1] IN
       \/ /\ item_data' = [item_data EXCEPT ![SectionKey(sec)] = Extracted(soup, SectionKey(sec))]
          /\ si' = si + 1
          /\ pc' = IF si + 1 < Len(Sections(script)) THEN "section_load" ELSE "store"
          /\ UNCHANGED trace
       \/ \E msg \in Messages :
            /\ item_data' = ExceptRecord(item_data, script, msg)
            /\ trace' = Append(trace, <<"error", tm_id, msg>>)
            /\ pc' = "store"
            /\ UNCHANGED si
    /\ UNCHANGED <<dvars, script, args, proc, it, tm_id, driver, countdown, results, soup>>

\* an exception raised in the loop body outside the per-id try (the print that
\* opens the body, the print of the except clause): the record is not stored
LoopCritical ==
    /\ Scraper /\ pc = "main_load"
    /\ pc' = "critical"
    /\ UNCHANGED <<dvars, script, args, proc, it, tm_id, trace, driver, countdown, results,
                   item_data, soup, si>>

\* results[str(i)] = item_data
Store ==
    /\ Scraper /\ pc = "store"
    /\ results' = Put(results, ToString(tm_id), item_data)
    /\ pc' = "loop"
    /\ UNCHANGED <<dvars, script, args, proc, it, tm_id, trace, driver, countdown, item_data, soup, si>>

\* slip: the critical branch returns without releasing the session
Critical_NoRelease ==
    /\ Scraper /\ pc = "critical"
    /\ proc' = "done"
    /\ trace' = Append(trace, <<"critical">>)
    /\ UNCHANGED <<dvars, script, args, pc, it, tm_id, driver, countdown, results, item_data, soup, si>>

\* except Exception as global_e: print("Erreur critique ...")
Critical ==
    /\ Scraper /\ pc = "critical"
    /\ pc' = "finally"
    /\ trace' = Append(trace, <<"critical">>)
    /\ UNCHANGED <<dvars, script, args, proc, it, tm_id, driver, countdown, results, item_data, soup, si>>

\* finally: driver.quit(); return results
Finally ==
    /\ Scraper /\ pc = "finally"
    /\ driver' = "quit"
    /\ trace' = Append(trace, <<"quit">>)
    /\ proc' = "done"
    /\ UNCHANGED <<dvars, script, args, pc, it, tm_id, countdown, results, item_data, soup, si>>

Next ==
    \/ CheckRobots
    \/ LoopNext
    \/ Fetch1
    \/ Fetch2
    \/ SaveMkdir
    \/ SaveOpen
    \/ SaveWrite
    \/ SaveReplace
    \/ SaveRaises
    \/ Sleep
    \/ Kill
    \/ Restart
    \/ GateLoad
    \/ SolveChallenge
    \/ GateWait
    \/ ScrapeNext
    \/ MainLoad
    \/ MainExtract
    \/ SectionLoad
    \/ SectionExtract
    \/ LoopCritical
    \/ Store
    \/ Critical
    \/ Finally

Spec == Init /\ [][Next]_vars

(* ------------------------ a Direct run to its end ---------------------- *)
InitDirect == Init /\ script = "geojson"

\* the statements of main: one thread; session.get has a timeout, so a
\* request returns or raises, and time.sleep returns
MainStatements ==
    \/ CheckRobots
    \/ LoopNext
    \/ Fetch1
    \/ Fetch2
    \/ SaveMkdir
    \/ SaveOpen
    \/ SaveWrite
    \/ SaveReplace
    \/ Sleep

NextDirect ==
    \/ MainStatements
    \/ SaveRaises
    \/ Kill
    \/ Restart

SpecDirect == InitDirect /\ [][NextDirect]_vars /\ WF_vars(MainStatements)

(* ------------------------ a scraper run to its end --------------------- *)
InitScraper == Init /\ script # "geojson"

\* the statements of scrape_trismegistos_*: one thread, each statement runs
\* when the one before it has returned
Statements ==
    \/ GateLoad
    \/ GateWait
    \/ ScrapeNext
    \/ MainLoad
    \/ MainExtract
    \/ SectionLoad
    \/ SectionExtract
    \/ Store
    \/ Critical
    \/ Finally

NextScraper ==
    \/ Statements
    \/ SolveChallenge
    \/ LoopCritical

\* the interpreter goes on to the next statement: time.sleep returns, and
\* driver.get returns or raises (page load timeout)
SpecScraper == InitScraper /\ [][NextScraper]_vars /\ WF_vars(Statements)

(* ============================ the extractors =========================== *)
\* largest number of top-level elements of a document
MaxElems == 2

\* the no-break space U+00A0
NBSP == "NBSP"
\* the line feed "\n"
LF == "LF"
\* characters str.strip() removes
Whitespace == {" ", NBSP, LF}
\* characters of lstrip("→∙-")
Bullets == {"ARROW", "BULLET", "-"}
\* characters of strip(" : ")
Separators == {" ", ":", NBSP}

(* ------------------------------- str ----------------------------------- *)
RECURSIVE LStrip(_, _)
LStrip(s, chars) ==
    IF s # <<>> /\ s[1] \in chars THEN LStrip(Tail(s), chars) ELSE s

RECURSIVE RStrip(_, _)
RStrip(s, chars) ==
    IF s # <<>> /\ s[Len(s)] \in chars THEN RStrip(SubSeq(s, 1, Len(s) - 1), chars) ELSE s

\* s.strip(chars)
Strip(s, chars) == RStrip(LStrip(s, chars), chars)

\* sub occurs in s at position i
StartsAt(s, sub, i) ==
    i + Len(sub) - 1 <= Len(s) /\ SubSeq(s, i, i + Len(sub) - 1) = sub

\* sub in s
Contains(s, sub) == \E i \in 1..(Len(s) + 1) : StartsAt(s, sub, i)

\* s.replace(old, "", 1)
ReplaceFirst(s, old) ==
    IF old = <<>> \/ ~Contains(s, old) THEN s
    ELSE LET i == CHOOSE j \in 1..Len(s) :
                     StartsAt(s, old, j) /\ \A k \in 1..(j - 1) : ~StartsAt(s, old, k)
         IN SubSeq(s, 1, i - 1) \o SubSeq(s, i + Len(old), Len(s))

\* sep.join(strs)
RECURSIVE Join(_, _)
Join(strs, sep) ==
    IF strs = <<>> THEN <<>>
    ELSE IF Len(strs) = 1 THEN strs[1]
    ELSE strs[1] \o sep \o Join(Tail(strs), sep)

(* ------------------------------ the tree ------------------------------- *)
\* a NavigableString
Text(t) == [name |-> "#text", class |-> "", id |-> "", kids |-> <<>>, text |-> t]
\* a Tag with one class
Tag(nm, cl, kids) == [name |-> nm, class |-> cl, id |-> "", kids |-> kids, text |-> <<>>]
\* a Tag with an id
TagId(nm, ident, kids) == [name |-> nm, class |-> "", id |-> ident, kids |-> kids, text |-> <<>>]
\* what find returns when nothing matches
NoTag == [name |-> "None", class |-> "", id |-> "", kids |-> <<>>, text |-> <<>>]

\* the strings below a sequence of nodes, in document order
RECURSIVE StringsOf(_)
StringsOf(kids) ==
    IF kids = <<>> THEN <<>>
    ELSE LET h == Head(kids) IN
         (IF h.name = "#text" THEN <<h.text>> ELSE StringsOf(h.kids)) \o StringsOf(Tail(kids))

\* tag.get_text(separator, strip)
GetText(tag, sep, strip) ==
    LET strs == StringsOf(tag.kids)
        stripped == [i \in 1..Len(strs) |-> Strip(strs[i], Whitespace)]
    IN IF strip
       THEN Join(SelectSeq(stripped, LAMBDA x : x # <<>>), sep)
       ELSE Join(strs, sep)

\* the tags below a sequence of nodes, in document order
RECURSIVE TagsOf(_)
TagsOf(kids) ==
    IF kids = <<>> THEN <<>>
    ELSE LET h == Head(kids) IN
         (IF h.name = "#text" THEN <<>> ELSE <<h>> \o TagsOf(h.kids)) \o TagsOf(Tail(kids))

\* first element of a sequence of tags, None when it is empty
First(tags) == IF tags = <<>> THEN NoTag ELSE tags[1]

\* tag.find(nm, class_=cl)
Find(tag, nm, cl) ==
    First(SelectSeq(TagsOf(tag.kids), LAMBDA x : x.name = nm /\ x.class = cl))

\* tag.find('a')
FindLink(tag) == First(SelectSeq(TagsOf(tag.kids), LAMBDA x : x.name = "a"))

\* the nodes left once every .tooltiptext below them is decomposed
RECURSIVE Decomposed(_)
Decomposed(kids) ==
    IF kids = <<>> THEN <<>>
    ELSE LET h == Head(kids) IN
         (IF h.name = "#text" THEN <<h>>
          ELSE IF h.class = "tooltiptext" THEN <<>>
          ELSE <<[h EXCEPT !.kids = Decomposed(h.kids)]>>) \o Decomposed(Tail(kids))

\* soup.find(id=ident), soup.select_one("#ident")
FindId(sp, ident) == First(SelectSeq(TagsOf(sp), LAMBDA x : x.id = ident))

\* tag.find_all(nm)
FindAll(tag, nm) == SelectSeq(TagsOf(tag.kids), LAMBDA x : x.name = nm)

\* tag.find_all(nm, class_=cl)
FindAllClass(tag, nm, cl) ==
    SelectSeq(TagsOf(tag.kids), LAMBDA x : x.name = nm /\ x.class = cl)

\* t = tag.find(nm, class_=cl) (any class when cl is "*"); if t: t.decompose()
RECURSIVE DecomposeFirst(_, _, _)
DecomposeFirst(kids, nm, cl) ==
    IF kids = <<>> THEN <<>>
    ELSE LET h == Head(kids)
             hit(x) == x.name = nm /\ (cl = "*" \/ x.class = cl)
         IN IF h.name # "#text" /\ hit(h) THEN Tail(kids)
            ELSE IF h.name # "#text" /\ \E k \in 1..Len(TagsOf(h.kids)) : hit(TagsOf(h.kids)[k])
            THEN <<[h EXCEPT !.kids = DecomposeFirst(h.kids, nm, cl)]>> \o Tail(kids)
            ELSE <<h>> \o DecomposeFirst(Tail(kids), nm, cl)

\* for tooltip in tag.find_all("span", class_="tooltiptext"): tooltip.decompose()
RECURSIVE DecomposedSpans(_)
DecomposedSpans(kids) ==
    IF kids = <<>> THEN <<>>
    ELSE LET h == Head(kids) IN
         (IF h.name = "#text" THEN <<h>>
          ELSE IF h.name = "span" /\ h.class = "tooltiptext" THEN <<>>
          ELSE <<[h EXCEPT !.kids = DecomposedSpans(h.kids)]>>) \o DecomposedSpans(Tail(kids))

\* for br in tag.find_all("br"): br.replace_with("\n")
RECURSIVE BrReplaced(_)
BrReplaced(kids) ==
    IF kids = <<>> THEN <<>>
    ELSE LET h == Head(kids) IN
         (IF h.name = "#text" THEN <<h>>
          ELSE IF h.name = "br" THEN <<Text(<<LF>>)>>
          ELSE <<[h EXCEPT !.kids = BrReplaced(h.kids)]>>) \o BrReplaced(Tail(kids))

\* s.split("\n")
RECURSIVE Split(_)
Split(s) ==
    IF \A k \in 1..Len(s) : s[k] # LF THEN <<s>>
    ELSE LET i == CHOOSE j \in 1..Len(s) : s[j] = LF /\ \A k \in 1..(j - 1) : s[k] # LF
         IN <<SubSeq(s, 1, i - 1)>> \o Split(SubSeq(s, i + 1, Len(s)))

(* --------------------------- extract_field ----------------------------- *)
\* get_text_clean(soup_element, label_to_remove)
get_text_clean(soup_element, label_to_remove) ==
    IF soup_element = NoTag THEN NoString
    ELSE LET temp_elem == [soup_element EXCEPT !.kids = Decomposed(@)]
             full_text == GetText(temp_elem, <<" ">>, TRUE)
             clean_text == Strip(ReplaceFirst(full_text, label_to_remove), Separators)
         IN IF clean_text # <<>> THEN Str(clean_text) ELSE NoString

\* block.find("span", class_="semibold")
LabelSpan(block) == Find(block, "span", "semibold")

\* soup.select(".division, .row")
Blocks(sp) == SelectSeq(TagsOf(sp), LAMBDA x : x.class \in {"division", "row"})

\* extract_field(soup, label_str): the metadata blocks first, then free text
extract_field(sp, label) ==
    LET label_str_colon == <<label, ":">>
        matching == SelectSeq(Blocks(sp), LAMBDA block :
                        /\ LabelSpan(block) # NoTag
                        /\ Contains(GetText(LabelSpan(block), <<>>, FALSE), <<label>>))
        target == First(SelectSeq(TagsOf(sp), LAMBDA tag :
                        /\ tag.name \in {"p", "div", "li"}
                        /\ Contains(GetText(tag, <<>>, FALSE), label_str_colon)))
        link == FindLink(target)
    IN IF matching # <<>>
       THEN get_text_clean(matching[1], GetText(LabelSpan(matching[1]), <<>>, TRUE))
       ELSE IF target # NoTag
            THEN IF link # NoTag /\ ~Contains(GetText(link, <<>>, FALSE), <<label>>)
                 THEN Str(GetText(link, <<>>, TRUE))
                 ELSE get_text_clean(target, label_str_colon)
            ELSE NoString

(* ------------------------ documents and labels ------------------------- *)
\* labels the scrapers ask for
Labels == {"Material", "Date"}

\* <div class="division"><span class="semibold">label:</span> value</div>
Division(label, val) ==
    Tag("div", "division", << Tag("span", "semibold", << Text(<<label, ":">>) >>),
                              Text(<<" ", val>>) >>)

\* top-level elements a page is made of
Elements ==
    { Division("Material", "Papyrus"),
      Division("Date", "5"),
      \* a label without a value
      Tag("div", "division", << Tag("span", "semibold", << Text(<<"Material", ":">>) >>) >>),
      \* two labelled values in one block
      Tag("div", "division", << Tag("span", "semibold", << Text(<<"Date", ":">>) >>),
                                Text(<<" ", "5", " ">>),
                                Tag("span", "semibold", << Text(<<"Material", ":">>) >>),
                                Text(<<" ", "Papyrus">>) >>),
      \* a tooltip inside the label
      Tag("div", "division", << Tag("span", "semibold",
                                    << Text(<<"Material">>),
                                       Tag("span", "tooltiptext", << Text(<<"help">>) >>),
                                       Text(<<":">>) >>),
                                Text(<<" ", "Papyrus">>) >>),
      \* a tooltip after the value
      Tag("div", "division", << Tag("span", "semibold", << Text(<<"Material", ":">>) >>),
                                Text(<<" ", "Papyrus">>),
                                Tag("span", "tooltiptext", << Text(<<"help">>) >>) >>),
      \* a row of two blocks
      Tag("div", "row", << Division("Date", "5"), Division("Material", "Papyrus") >>),
      \* free text with a linked value
      Tag("p", "", << Text(<<"Material", ":", " ">>), Tag("a", "", << Text(<<"Papyrus">>) >>) >>),
      \* free text with a link that has no text (an image link)
      Tag("p", "", << Text(<<"Material", ":", " ">>), Tag("a", "", << >>),
                      Text(<<" ", "Papyrus">>) >>),
      \* free text whose link restates the label
      Tag("p", "", << Tag("a", "", << Text(<<"Material">>) >>), Text(<<":", " ", "Papyrus">>) >>),
      \* free text without a link
      Tag("li", "", << Text(<<"Material", ":", " ", "Papyrus">>) >>),
      \* free text with the label and nothing else
      Tag("p", "", << Text(<<"Date", ":", " ">>) >>),
      \* text that names no label
      Tag("p", "", << Text(<<"help">>) >>) }

RECURSIVE SeqsUpTo(_, _)
\* the sequences over S of length at most n
SeqsUpTo(S, n) ==
    IF n = 0 THEN {<<>>}
    ELSE LET shorter == SeqsUpTo(S, n - 1)
         IN shorter \cup {Append(q, e) : q \in shorter, e \in S}

Documents == SeqsUpTo(Elements, MaxElems)

\* an extractor is called on its own on a parsed page
InitExtract ==
    /\ script \in Scripts \ {"geojson"}
    /\ args = [start |-> 1, end |-> 1]
    /\ pc = "extract_field"
    /\ driver = "open"
    /\ countdown = 0
    /\ results = EmptyDict
    /\ item_data = EmptyDict
    /\ soup = NoSoup
    /\ si = 0
    /\ run = 1
    /\ proc = "running"
    /\ it = 1
    /\ tm_id = 0
    /\ ok = 0 /\ missing = 0 /\ skipped = 0 /\ failed = 0
    /\ data = None
    /\ resp = NoResp
    /\ wpos = 0
    /\ fs = EmptyFs
    /\ trace = <<>>
    /\ challenge = "pending"
    /\ document \in Documents
    /\ label_str \in Labels
    /\ value = NoString

\* value = extract_field(soup, label_str)
ExtractField ==
    /\ pc = "extract_field"
    /\ value' = extract_field(document, label_str)
    /\ pc' = "return"
    /\ UNCHANGED <<script, args, run, proc, it, tm_id, counters, data, resp, wpos, fs, trace,
                   driver, countdown, results, item_data, soup, si, challenge, document,
                   label_str>>

NextExtract == ExtractField

SpecExtract == InitExtract /\ [][NextExtract]_vars

(* ------------------ extract_greek_text, the list extractors ------------- *)
\* [line.strip() for line in text.split("\n")], then the lines that are not empty
CleanLines(text) ==
    LET lines == Split(text)
        stripped == [i \in 1..Len(lines) |-> Strip(lines[i], Whitespace)]
    IN SelectSeq(stripped, LAMBDA line : line # <<>>)

\* slip: the lines are joined without the empty ones being dropped
extract_greek_text_BlankLines(sp) ==
    LET content_div == FindId(sp, "words-full-text")
        temp_soup == [content_div EXCEPT !.kids = BrReplaced(DecomposedSpans(@))]
        lines == Split(GetText(temp_soup, <<>>, FALSE))
    IN IF content_div = NoTag THEN NoString
       ELSE Str(Join([i \in 1..Len(lines) |-> Strip(lines[i], Whitespace)], <<LF>>))

extract_greek_text(sp) ==
    LET content_div == FindId(sp, "words-full-text")
        temp_soup == [content_div EXCEPT !.kids = BrReplaced(DecomposedSpans(@))]
        text_content == GetText(temp_soup, <<>>, FALSE)
    IN IF content_div = NoTag THEN NoString
       ELSE Str(Join(CleanLines(text_content), <<LF>>))

\* the texts of a sequence of tags that are not empty
Texts(tags, sep) ==
    LET texts == [i \in 1..Len(tags) |-> GetText(tags[i], sep, TRUE)]
    IN SelectSeq(texts, LAMBDA text : text # <<>>)

extract_publications(sp) ==
    LET container == FindId(sp, "text-publs")
        ps == FindAll(container, "p")
        p_clean == [i \in 1..Len(ps) |->
                       [ps[i] EXCEPT !.kids = DecomposeFirst(@, "i", "fa-thumb-tack")]]
    IN IF container = NoTag THEN List(<<>>) ELSE List(Texts(p_clean, <<" ">>))

extract_collections(sp) ==
    LET container == FindId(sp, "text-coll")
        temp_container == [container EXCEPT !.kids = BrReplaced(DecomposeFirst(@, "h4", "*"))]
        full_text == GetText(temp_container, <<LF>>, TRUE)
        lines == Split(full_text)
        clean == [i \in 1..Len(lines) |->
                     Strip(LStrip(Strip(lines[i], Whitespace), Bullets), Whitespace)]
    IN IF container = NoTag THEN List(<<>>)
       ELSE List(SelectSeq(clean, LAMBDA clean_line : clean_line # <<>>))

extract_archive(sp) ==
    LET container == FindId(sp, "text-arch")
        temp_container == [container EXCEPT !.kids = DecomposeFirst(@, "h4", "*")]
    IN IF container = NoTag THEN List(<<>>)
       ELSE List(Texts(FindAll(temp_container, "p"), <<" ">>))

\* the li.item-large of the list with the given id
ItemsLarge(sp, ident) ==
    LET list == FindId(sp, ident)
    IN IF list = NoTag THEN List(<<>>)
       ELSE List(Texts(FindAllClass(list, "li", "item-large"), <<>>))

extract_people(sp) == ItemsLarge(sp, "people-list")
extract_places(sp) == ItemsLarge(sp, "places-list")
extract_irregularities(sp) == ItemsLarge(sp, "texirr-list")

(* -------------------------------- pages -------------------------------- *)
Tooltip == Tag("span", "tooltiptext", << Text(<<"help">>) >>)
Br == Tag("br", "", << >>)
Heading(t) == Tag("h4", "", << Text(<<t>>) >>)
Item(t) == Tag("li", "item-large", << Text(t) >>)

\* <ul id=ident>: an item to trim, a blank item, the first item again, an
\* li of another class
ItemList(ident) ==
    TagId("ul", ident, << Item(<<" ", "Zenon", LF>>), Item(<<" ">>), Item(<<"Zenon">>),
                          Tag("li", "", << Text(<<"total">>) >>),
                          Item(<<"Apollonios">>) >>)

\* top-level elements of a record page
PageElements ==
    { \* words with tooltips, line breaks, an empty line, a line of blanks
      TagId("div", "words-full-text",
            << Text(<<" ", "alpha", " ">>), Tooltip, Br,
               Tag("span", "word", << Text(<<"beta">>), Tooltip >>), Text(<<" ", "gamma">>),
               Br, Br, Text(<<" ", NBSP>>), Br, Text(<<"alpha">>) >>),
      \* line feeds of the page source inside the text
      TagId("div", "words-full-text",
            << Text(<<LF, " ", "beta", LF, LF, "alpha", " ">>), Br, Tooltip >>),
      \* the anchor with nothing in it
      TagId("div", "words-full-text", << >>),
      TagId("div", "text-publs",
            << Tag("p", "", << Tag("i", "fa-thumb-tack", << >>), Text(<<" ", "P.Oxy", " ">>),
                              Tag("a", "", << Text(<<"1">>) >>) >>),
               Tag("p", "", << Text(<<" ">>) >>),
               Tag("p", "", << Text(<<"P.Oxy">>), Tag("a", "", << Text(<<"1">>) >>) >>),
               Tag("p", "", << Text(<<"SB">>) >>) >>),
      \* one collection to a line, lines ended by <br>
      TagId("div", "text-coll",
            << Heading("Collections"), Text(<<"ARROW", " ", "Cairo", " ">>), Br,
               Text(<<" ">>), Br, Text(<<"London">>), Br, Text(<<"Cairo">>) >>),
      \* a collection whose inventory number is a link
      TagId("div", "text-coll",
            << Heading("Collections"), Text(<<"Cairo", " ">>),
               Tag("a", "", << Text(<<"JE">>) >>), Br, Text(<<"London">>) >>),
      TagId("div", "text-arch",
            << Heading("Archive"), Tag("p", "", << Text(<<" ", "Zenon">>) >>),
               Tag("p", "", << >>), Tag("p", "", << Text(<<"Zenon">>) >>) >>),
      ItemList("people-list"),
      ItemList("places-list"),
      ItemList("texirr-list"),
      \* a list without items
      TagId("ul", "people-list", << >>),
      \* text outside every container
      Tag("p", "", << Text(<<"help">>) >>) }

Pages == SeqsUpTo(PageElements, MaxElems)

\* an extractor of whole blocks is called on a parsed page
InitPage ==
    /\ script \in Scripts \ {"geojson"}
    /\ args = [start |-> 1, end |-> 1]
    /\ pc = "page"
    /\ driver = "open"
    /\ countdown = 0
    /\ results = EmptyDict
    /\ item_data = EmptyDict
    /\ soup = NoSoup
    /\ si = 0
    /\ run = 1
    /\ proc = "running"
    /\ it = 1
    /\ tm_id = 0
    /\ ok = 0 /\ missing = 0 /\ skipped = 0 /\ failed = 0
    /\ data = None
    /\ resp = NoResp
    /\ wpos = 0
    /\ fs = EmptyFs
    /\ trace = <<>>
    /\ challenge = "pending"
    /\ document \in Pages
    /\ label_str = ""
    /\ value = NoString

\* value = f(soup) for the extractor named f
Call(f, result) ==
    /\ pc = "page"
    /\ value' = result
    /\ pc' = f
    /\ UNCHANGED <<script, args, run, proc, it, tm_id, counters, data, resp, wpos, fs, trace,
                   driver, countdown, results, item_data, soup, si, challenge, document,
                   label_str>>

ExtractGreekText ==
    script # "geojson" /\ Call("extract_greek_text", extract_greek_text(document))
ExtractPublications ==
    script # "geojson" /\ Call("extract_publications", extract_publications(document))
ExtractCollections == script = "scrapapyrus" /\ Call("extract_collections", extract_collections(document))
ExtractArchive == script = "scrapapyrus" /\ Call("extract_archive", extract_archive(document))
ExtractPeople == script # "temporaire" /\ Call("extract_people", extract_people(document))
ExtractPlaces == script = "scrapapyrus" /\ Call("extract_places", extract_places(document))
ExtractIrregularities ==
    script = "scrapapyrus" /\ Call("extract_irregularities", extract_irregularities(document))

NextPage ==
    \/ ExtractGreekText
    \/ ExtractPublications
    \/ ExtractCollections
    \/ ExtractArchive
    \/ ExtractPeople
    \/ ExtractPlaces
    \/ ExtractIrregularities

SpecPage == InitPage /\ [][NextPage]_vars

(* =============================== claims ================================ *)
Abs(x) == IF x < 0 THEN -x ELSE x

Geo == script = "geojson"
Running == Geo /\ proc = "running"
Fetching == pc \in {"fetch1", "fetch2"}
Saving == pc \in {"save_mkdir", "save_open", "save_write", "save_replace"}

\* ids handed out by iter_ids so far
Yielded == Abs(it - args.start)
Total == ok + missing + skipped + failed

\* this step sends a request: a "get" event is appended to trace
IssuesGet == Len(trace') = Len(trace) + 1 /\ trace'[Len(trace')][1] = "get"

\* exactly one counter grows by one
OneMore ==
    \/ ok' = ok + 1 /\ UNCHANGED <<missing, skipped, failed>>
    \/ missing' = missing + 1 /\ UNCHANGED <<ok, skipped, failed>>
    \/ skipped' = skipped + 1 /\ UNCHANGED <<ok, missing, failed>>
    \/ failed' = failed + 1 /\ UNCHANGED <<ok, missing, skipped>>

C2_AtomicSave ==
    /\ [](Geo => \A n \in Ids : fs.canon[n] = Absent \/ ValidJSON(fs.canon[n]))
    /\ [][Geo => \A n \in Ids :
             \/ fs'.canon[n] = fs.canon[n]
             \/ /\ n = tm_id /\ pc = "save_replace"
                /\ fs'.canon[n] = Dump(data)]_vars

C2_Witness ==
    /\ Geo /\ proc = "killed"
    /\ \E n \in Ids : /\ fs.part[n] # Absent /\ ~ValidJSON(fs.part[n])
                      /\ fs.canon[n] # Absent

\* C3: in a second run with resume, no request is issued for an id whose
\* canonical file exists (the first run wrote it), the id is counted as
\* skipped, and an existing canonical file is never modified.
C3_ResumeIdempotent ==
    /\ [][Running /\ run = 2 /\ args.resume /\ proc' = "running" =>
             /\ \A n \in Ids : fs.canon[n] # Absent => fs'.canon[n] = fs.canon[n]
             /\ (pc = "loop" /\ it' # it /\ fs.canon[it] # Absent =>
                    skipped' = skipped + 1 /\ pc' = "loop" /\ trace' = <<>>)
             /\ (IssuesGet => fs.canon[trace'[Len(trace')][2]] = Absent)]_vars

C3_Witness ==
    Geo /\ run = 2 /\ args.resume /\ proc = "done" /\ skipped >= 1
\* the step hands out the next id of the range
Visit == pc = "loop" /\ it' # it

\* C4: an id is skipped exactly when resume is on and id_<N>.json exists when
\* the id is reached; a skip makes no request and touches no file; without
\* resume nothing is ever skipped and every id reached is fetched; a .part
\* file alone does not cause a skip.
C4_SkipIff ==
    /\ [][Running /\ proc' = "running" =>
             /\ (Visit =>
                   /\ (skipped' = skipped + 1) <=> (args.resume /\ fs.canon[it] # Absent)
                   /\ (skipped' = skipped + 1 =>
                          pc' = "loop" /\ fs' = fs /\ trace' = <<>> /\ UNCHANGED <<ok, missing, failed>>)
                   /\ (skipped' = skipped => pc' = "fetch1"))
             /\ (~Visit => skipped' = skipped)]_vars
    /\ [](Geo /\ proc \in {"running", "done"} /\ ~args.resume => skipped = 0)

C4_Witness ==
    /\ Running /\ args.resume /\ pc = "fetch1"
    /\ fs.part[tm_id] # Absent /\ fs.canon[tm_id] = Absent

\* bodies that are a complete JSON object
ObjectBodies == {b \in Bodies : \E v \in Values : v.kind = "dict" /\ Dump(v) = b}

\* C5: in mode auto the first request carries the dl flag; the view request
\* is sent exactly when the download request completed and gave null; a
\* non-null download result is the result, otherwise the view result is; a
\* download answered 404 followed by a view answered 200 with a JSON object
\* gives that object.
C5_AutoFallback ==
    [][Running /\ args.method = "auto" /\ proc' = "running" =>
          /\ (pc = "fetch1" =>
                /\ trace' = Append(trace, <<"get", tm_id, TRUE>>)
                /\ (pc' = "fetch2") <=> (resp' # NoResp /\ data' = None)
                /\ (resp' # NoResp /\ data' # None => pc' = "save_mkdir"))
          /\ (IssuesGet /\ trace'[Len(trace')][3] = FALSE =>
                pc = "fetch2" /\ data = None /\ resp # NoResp)
          /\ (pc = "fetch2" =>
                /\ trace' = Append(trace, <<"get", tm_id, FALSE>>)
                /\ (resp' # NoResp /\ data' = None => pc' = "sleep" /\ missing' = missing + 1)
                /\ (resp' # NoResp /\ data' # None => pc' = "save_mkdir"))
          /\ (pc = "fetch2" /\ resp.status = 404 /\ resp'.status = 200
                 /\ resp'.body \in ObjectBodies =>
                data' = Parse(resp'.body) /\ pc' = "save_mkdir")
          /\ (Saving => data' = data)]_vars

C5_Witness ==
    /\ Running /\ args.method = "auto" /\ pc = "save_mkdir"
    /\ trace = << <<"get", tm_id, TRUE>>, <<"get", tm_id, FALSE>> >>
    /\ data # None

\* the request of this step ended in a transport exception
GetRaised == Fetching /\ IssuesGet /\ resp' = NoResp

\* C6: a transport exception during a fetch adds one to failed and to nothing
\* else, writes no file, and after the delay the loop goes on with the next id.
C6_NetworkError ==
    [][Running /\ proc' = "running" =>
          /\ (GetRaised =>
                /\ failed' = failed + 1 /\ UNCHANGED <<ok, missing, skipped>>
                /\ fs' = fs /\ pc' = "sleep_exc")
          /\ (pc = "sleep_exc" =>
                pc' = "loop" /\ UNCHANGED counters /\ fs' = fs /\ it' = it)]_vars

C6_Witness ==
    Running /\ failed = 1 /\ Total = 1 /\ pc = "fetch1" /\ Yielded = 2

\* the request of this step was answered with a status other than 200
GetNon200 == Fetching /\ IssuesGet /\ resp' # NoResp /\ resp'.status # 200

\* C7 as stated: a non-200 status on a fetch counts the id as failed.
C7_Non200Failed ==
    [][Running /\ proc' = "running" /\ GetNon200 /\ pc' \notin {"fetch1", "fetch2"} =>
          failed' = failed + 1 /\ missing' = missing]_vars

\* C7 amended: a non-200 status makes the request yield null; in mode auto
\* the view request follows a non-200 download; when the last request of an
\* id is answered non-200 the id is counted as missing, not failed, no file
\* is written and the loop goes on.
C7_Non200Missing ==
    [][Running /\ proc' = "running" =>
          /\ (GetNon200 =>
                /\ data' = None /\ failed' = failed /\ ok' = ok /\ fs' = fs
                /\ IF pc = "fetch1" /\ args.method = "auto"
                   THEN pc' = "fetch2" /\ missing' = missing
                   ELSE pc' = "sleep" /\ missing' = missing + 1)
          /\ (pc = "sleep" => pc' = "loop" /\ UNCHANGED counters /\ fs' = fs)]_vars

C7_Witness ==
    Running /\ pc = "sleep" /\ resp # NoResp /\ resp.status = 404 /\ missing = 1 /\ failed = 0

\* C8: a 200 response whose body is the empty JSON object yields null: the
\* view fallback is tried or the id is counted as missing, nothing is saved.
C8_EmptyObjectIsNull ==
    [][Running /\ proc' = "running" /\ Fetching /\ IssuesGet
          /\ resp' # NoResp /\ resp'.status = 200 /\ resp'.body = Dump(Dict({})) =>
          data' = None /\ pc' \in {"fetch2", "sleep"}]_vars

\* the run returned without the critical-error branch
NormalEnd ==
    proc = "done" /\ \A k \in 1..Len(trace) : trace[k][1] # "critical"

\* C9: every program visits start, then one id further towards end at each
\* visit (upwards when end >= start, downwards when end < start), and ends
\* having visited end.
C9_VisitOrder ==
    /\ [][proc = "running" /\ proc' = "running" /\ Visit =>
             tm_id' = IF tm_id = 0 THEN args.start
                      ELSE IF args.end >= args.start THEN tm_id + 1 ELSE tm_id - 1]_vars
    /\ [](NormalEnd => tm_id = args.end)

\* C10: in a scraper, an exception inside the per-id try block (its print is
\* in trace) leaves the id's record in results with Status "Error" and the
\* message under "Error", and the run still stores every id of the range.
C10_ErrorRecorded ==
    script # "geojson" =>
        \A k \in 1..Len(trace) : trace[k][1] = "error" =>
            LET key == ToString(trace[k][2]) IN
            /\ (key \in DOMAIN results =>
                  /\ "Status" \in DOMAIN results[key]
                  /\ results[key]["Status"] = "Error"
                  /\ "Error" \in DOMAIN results[key]
                  /\ results[key]["Error"] = trace[k][3])
            /\ (NormalEnd =>
                  \A n \in args.start..args.end : ToString(n) \in DOMAIN results)

Sectioned == script # "geojson"

\* C11: when the primary page carries a not-found marker, the record goes
\* straight to results: no section page is loaded, no field is assigned, and
\* the record carries the status Not Found.
C11_NotFoundShortCircuit ==
    [][Scraper /\ pc = "main_extract" /\ soup.marker # "none" =>
          /\ pc' = "store" /\ trace' = trace
          /\ \A k \in DOMAIN item_data \ {"Status"} : item_data'[k] = item_data[k]
          /\ "Status" \in DOMAIN item_data'
          /\ item_data'["Status"] = "Not Found"]_vars

\* positions of trace holding the load of the bootstrap page
GateLoads == {k \in 1..Len(trace) : trace[k][1] = "load" /\ trace[k][3] = "gate"}
\* positions of trace holding the load of a record page (primary or section)
RecordLoads == {k \in 1..Len(trace) : trace[k][1] = "load" /\ trace[k][3] # "gate"}

\* C12: in a scraper run the bootstrap page is loaded once, as the first
\* thing the run does, and never again; the countdown is started once, at
\* GateSeconds, sleeps one second per step and is at zero when the id loop is
\* entered; the gate is never re-entered, so every record page load comes
\* after the completed gate, whatever the ids and the record-level errors.
C12_GateOnce ==
    /\ [](Sectioned =>
            /\ Cardinality(GateLoads) <= 1
            /\ (pc # "gate_load" => GateLoads = {1})
            /\ (RecordLoads # {} => GateLoads = {1} /\ countdown = 0)
            /\ (pc \in {"loop", "main_load", "main_extract", "section_load",
                        "section_extract", "store"} => GateLoads = {1} /\ countdown = 0))
    /\ [][Sectioned =>
            /\ (countdown' # countdown =>
                   \/ pc = "gate_load" /\ pc' = "gate_wait" /\ countdown' = GateSeconds
                   \/ pc = "gate_wait" /\ pc' = "gate_wait" /\ countdown' = countdown - 1)
            /\ (pc = "gate_load" /\ pc' = "gate_wait" => countdown' = GateSeconds)
            /\ (pc = "gate_wait" /\ pc' # "gate_wait" => countdown = 0 /\ pc' = "loop")
            /\ (pc' \in {"gate_load", "gate_wait"} => pc \in {"gate_load", "gate_wait"})
            /\ (pc' = "loop" /\ pc \notin {"loop", "store"} => pc = "gate_wait")]_vars

C12_Witness ==
    /\ Sectioned /\ proc = "done" /\ GateLoads = {1}
    /\ Cardinality(DOMAIN results) = 2
    /\ \E k \in 1..Len(trace) : trace[k][1] = "error"
    /\ Cardinality(RecordLoads) >= 2

\* positions of trace holding a politeness delay
Sleeps == {k \in 1..Len(trace) : trace[k][1] = "sleep"}

\* C13: in the Direct harvester an id that was fetched (saved, missing or
\* failed) is followed by exactly one delay, slept after its last request and
\* after its save, before the next id is taken; a skipped id sleeps nothing
\* and a save adds no delay of its own.
C13_DelayOncePerId ==
    /\ [](Running /\ tm_id # 0 =>
            /\ Cardinality(Sleeps) <= 1
            /\ (pc # "loop" => Sleeps = {})
            /\ (pc = "loop" /\ trace # <<>> =>
                   Sleeps = {Len(trace)} /\ trace[1][1] = "get" /\ trace[Len(trace)][2] = tm_id))
    /\ [][Running /\ proc' = "running" =>
            /\ (ok' # ok \/ missing' # missing \/ failed' # failed =>
                   pc' \in {"sleep", "sleep_exc"} /\ trace' # <<>>)
            /\ (pc \in {"sleep", "sleep_exc"} =>
                   pc' = "loop" /\ trace' = Append(trace, <<"sleep", tm_id>>))
            /\ (skipped' # skipped => pc' = "loop" /\ trace' = <<>>)
            /\ (Saving => Sleeps = {} /\ (pc' = "sleep" \/ trace' = trace))
            /\ (Visit /\ tm_id # 0 /\ trace # <<>> => Sleeps = {Len(trace)})]_vars

C13_Witness ==
    /\ Running /\ pc = "loop" /\ ok = 1 /\ missing + failed = 1
    /\ Len(trace) = 2 /\ trace[2] = <<"sleep", tm_id>>

\* C14: no error met while an id is processed (fetch, parse, save) ends the
\* run: the process never dies on a traceback once past the setup phase.
C14_ErrorsLocal ==
    [][Running /\ (Fetching \/ Saving) => proc' \in {"running", "killed"}]_vars

\* C15: every record a scraper stores has a Status that is one of OK,
\* Not Found, Error; Error comes with the message under Error; OK is stored
\* only when the primary page carried no not-found marker.
C15_StatusInvariant ==
    /\ [](Sectioned => \A key \in DOMAIN results :
            /\ "Status" \in DOMAIN results[key]
            /\ results[key]["Status"] \in {"OK", "Not Found", "Error"}
            /\ (results[key]["Status"] = "Error" =>
                  "Error" \in DOMAIN results[key] /\ results[key]["Error"] \in Messages))
    /\ [][Scraper /\ pc = "store" =>
            /\ "Status" \in DOMAIN item_data
            /\ (item_data["Status"] = "OK" => soup.marker = "none")]_vars

\* C16: in the run that follows an interrupted one, with resume, every id whose
\* id_<N>.json was there at the restart is skipped when reached, without a
\* request, and the file keeps its content; an id that has only its
\* .id_<N>.json.part is not skipped: it is fetched again, and a new save
\* starts its temporary file afresh.
C16_InterruptResume ==
    [][Running /\ run = 2 /\ args.resume /\ proc' = "running" =>
          /\ \A n \in Ids : fs.canon[n] # Absent => fs'.canon[n] = fs.canon[n]
          /\ (Visit /\ fs.canon[it] # Absent =>
                skipped' = skipped + 1 /\ pc' = "loop" /\ fs' = fs /\ trace' = <<>>)
          /\ (Visit /\ fs.canon[it] = Absent =>
                skipped' = skipped /\ pc' = "fetch1" /\ tm_id' = it /\ fs' = fs)
          /\ (pc = "fetch1" =>
                fs.canon[tm_id] = Absent /\ IssuesGet /\ trace'[Len(trace')][2] = tm_id)
          /\ (pc = "save_open" => fs'.part[tm_id] = <<>>)]_vars

C16_Witness ==
    /\ Running /\ run = 2 /\ args.resume /\ pc = "fetch2" /\ skipped = 1
    /\ fs.canon[tm_id] = Absent
    /\ fs.part[tm_id] # Absent /\ ~ValidJSON(fs.part[tm_id])
    /\ \E n \in Ids : n # tm_id /\ ValidJSON(fs.canon[n])

\* C17: with the robots check on, robots.txt is read once before anything
\* else; a disallow ends the run with exit status 2, no id visited, no request
\* sent, no file touched; an allow or a read error lets the run enter the id
\* loop; with the check off robots.txt is not read and the run enters the loop.
C17_RobotsGate ==
    /\ [][Running /\ pc = "robots" /\ proc' \in {"running", "exit2"} =>
            IF args.check_robots
            THEN /\ Len(trace') = Len(trace) + 1
                 /\ trace'[Len(trace')][1] = "robots"
                 /\ (trace'[Len(trace')][2] = "disallow" =>
                        proc' = "exit2" /\ fs' = fs /\ UNCHANGED <<counters, tm_id, it>>)
                 /\ (trace'[Len(trace')][2] \in {"allow", "error"} =>
                        proc' = "running" /\ pc' = "loop" /\ fs' = fs)
            ELSE trace' = trace /\ proc' = "running" /\ pc' = "loop" /\ fs' = fs]_vars
    /\ [](Geo /\ (proc = "exit2" \/ (proc = "running" /\ pc = "robots")) =>
            /\ Total = 0 /\ tm_id = 0
            /\ \A k \in 1..Len(trace) : trace[k][1] = "robots"
            /\ (run = 1 => fs = EmptyFs))
    /\ [][Geo /\ proc = "exit2" => fs' = fs /\ (proc' = "exit2" \/ run' # run)]_vars
    /\ [][Running /\ (IssuesGet \/ fs' # fs) /\ proc' = "running" => pc # "robots"]_vars

C17_Witness ==
    /\ Geo /\ proc = "exit2" /\ run = 2 /\ fs # EmptyFs
    /\ trace = << <<"robots", "disallow">> >>

\* the response is recognisable as JSON: by its content type or by a body
\* that starts with an opening brace
Recognizable(r) == r.ctjson \/ (Len(r.body) > 0 /\ r.body[1] = "{")

\* the response gives no record
Malformed(r) == r.status # 200 \/ ~Recognizable(r) \/ Parse(r.body) = JSONDecodeError

\* C18: a request answered with a status other than 200, with something not
\* recognisable as JSON, or with a body that does not parse yields null; when
\* it is the last request of the id, the id is counted as missing, not failed,
\* and nothing is written; mode download sends exactly one request per id,
\* with the dl flag, and mode view exactly one, without it.
C18_SingleRequest ==
    /\ [][Running /\ proc' = "running" /\ Fetching /\ resp' # NoResp =>
            /\ (Malformed(resp') =>
                   /\ data' = None /\ fs' = fs /\ UNCHANGED <<ok, failed, skipped>>
                   /\ IF args.method = "auto" /\ pc = "fetch1"
                      THEN pc' = "fetch2" /\ missing' = missing
                      ELSE pc' = "sleep" /\ missing' = missing + 1)]_vars
    /\ [][Running /\ proc' = "running" /\ args.method # "auto" =>
            /\ pc' # "fetch2"
            /\ (pc = "fetch1" =>
                   /\ trace = <<>>
                   /\ trace' = << <<"get", tm_id, args.method = "download">> >>)
            /\ (IssuesGet => pc = "fetch1")
            /\ (pc = "sleep" /\ data = None => fs' = fs /\ pc' = "loop")]_vars

C18_Witness ==
    /\ Running /\ args.method = "view" /\ pc = "sleep" /\ missing = 1 /\ failed = 0
    /\ resp.status = 200 /\ resp.ctjson /\ resp.body = <<"{", "id">>
    /\ trace = << <<"get", tm_id, FALSE>> >>
    /\ fs.canon[tm_id] = Absent /\ fs.part[tm_id] = Absent

Returned == pc = "return"

\* C19: whatever the page and the label, extract_field returns None or a
\* string that is not empty.
C19_NeverEmpty ==
    Returned => value = NoString \/ (value.kind = "str" /\ value.text # <<>>)

\* the metadata blocks of the page whose label contains the label looked for
LabelledBlocks ==
    SelectSeq(Blocks(document), LAMBDA b :
        LabelSpan(b) # NoTag /\ Contains(GetText(LabelSpan(b), <<>>, FALSE), <<label_str>>))

\* the text a block shows: its strings without the tooltips
Shown(tag) == GetText([tag EXCEPT !.kids = Decomposed(@)], <<" ">>, TRUE)

\* the text of the block with the text of its label taken from the front and
\* the separators trimmed; None when nothing is left
LabelStripped(b) ==
    LET own == Shown(LabelSpan(b))
        rest == IF StartsAt(Shown(b), own, 1)
                THEN SubSeq(Shown(b), Len(own) + 1, Len(Shown(b)))
                ELSE Shown(b)
        trimmed == Strip(rest, Separators)
    IN IF trimmed = <<>> THEN NoString ELSE Str(trimmed)

\* the first generic element whose text has the label followed by a colon
GenericTarget ==
    First(SelectSeq(TagsOf(document), LAMBDA tag :
        tag.name \in {"p", "div", "li"}
        /\ Contains(GetText(tag, <<>>, FALSE), <<label_str, ":">>)))

\* C20: when a metadata block has a label containing the label looked for,
\* extract_field returns the text of the first such block with the label
\* stripped from the front and the separators trimmed, whatever the generic
\* elements hold; without such a block and without a generic element holding
\* "label:" it returns None; and it returns None only when nothing matched or
\* nothing is left after the stripping.
C20_FirstMatchWins ==
    Returned =>
        /\ (LabelledBlocks # <<>> => value = LabelStripped(LabelledBlocks[1]))
        /\ (LabelledBlocks = <<>> /\ GenericTarget = NoTag => value = NoString)
        /\ (LabelledBlocks = <<>> /\ GenericTarget # NoTag /\ value = NoString =>
              Strip(ReplaceFirst(Shown(GenericTarget), <<label_str, ":">>), Separators) = <<>>)

\* the page loads of the run, oldest first
LoadEvents == SelectSeq(trace, LAMBDA e : e[1] = "load")
\* the sections loaded for id n, in the order of their loads
LoadsOf(n) ==
    LET L == SelectSeq(LoadEvents, LAMBDA e : e[2] = n /\ e[3] # "gate")
    IN [k \in 1..Len(L) |-> L[k][3]]
LastLoad == LoadEvents[Len(LoadEvents)]

IsPrefix(a, b) == Len(a) <= Len(b) /\ \A k \in 1..Len(a) : a[k] = b[k]

\* primary page, People, Places, Irregularities
SectionOrder == <<"main", "people", "places", "text-irregularities">>

\* C23: for every id the pages loaded are, in order, the first ones of primary,
\* People, Places, Irregularities, each loaded once; a section
\* page is loaded only from the step that parsed and used the page before it;
\* the fields of a page are assigned from the document parsed after the load
\* of that very page, which is the last page loaded.
C23_SectionOrder ==
    /\ [](Sectioned =>
            \A n \in Ids : IsPrefix(LoadsOf(n), SectionOrder))
    /\ [][Scraper =>
            /\ (pc' = "section_load" /\ pc # "section_load" =>
                   /\ pc \in {"main_extract", "section_extract"}
                   /\ soup.id = tm_id /\ soup.marker = "none"
                   /\ soup.section = LastLoad[3] /\ LastLoad[2] = tm_id
                   /\ LoadsOf(tm_id) = SubSeq(SectionOrder, 1, si' + 1))
            /\ (pc = "main_extract" /\ soup.marker = "none" /\ trace' = trace =>
                   /\ soup.id = tm_id /\ soup.section = "main"
                   /\ LastLoad = <<"load", tm_id, "main">>
                   /\ \A j \in 1..Len(MainFields(script)) :
                        item_data'[MainFields(script)[j]].text
                            = <<MainFields(script)[j], tm_id, "main">>)
            /\ (pc = "section_extract" /\ si' = si + 1 =>
                   LET sec == SectionOrder[si + 2] IN
                   /\ soup.id = tm_id /\ soup.section = sec
                   /\ LastLoad = <<"load", tm_id, sec>>
                   /\ item_data'[SectionKey(sec)] = List(<<SectionKey(sec), tm_id, sec>>))]_vars

C23_Witness ==
    /\ Sectioned /\ script = "scrapapyrus" /\ pc = "store" /\ si = 3 /\ tm_id = 2
    /\ LoadsOf(2) = SectionOrder
    /\ item_data["People"] = List(<<"People", 2, "people">>)
    /\ item_data["Irregularities"] = List(<<"Irregularities", 2, "text-irregularities">>)
    /\ ToString(1) \in DOMAIN results

\* positions of trace holding driver.quit()
Quits == {k \in 1..Len(trace) : trace[k][1] = "quit"}

\* C24: a scraper run ends only through driver.quit(): normal end, failed
\* bootstrap load and critical error in the id loop alike; the session is
\* released once, it is the last thing the run does (no page load follows),
\* and the critical branch and the release leave results as collected.
C24_DriverReleased ==
    /\ [](Sectioned =>
            /\ Cardinality(Quits) <= 1
            /\ (driver = "quit" <=> Quits # {})
            /\ (Quits # {} => Quits = {Len(trace)})
            /\ (proc = "done" <=> driver = "quit")
            /\ (proc = "running" <=> driver = "open"))
    /\ [][Sectioned =>
            /\ (driver = "quit" => driver' = "quit" /\ trace' = trace /\ results' = results)
            /\ (pc = "critical" => pc' = "finally" /\ proc' = "running")
            /\ (pc \in {"critical", "finally"} => results' = results)
            /\ (proc = "running" /\ proc' # "running" =>
                   pc = "finally" /\ proc' = "done" /\ driver' = "quit")]_vars

C24_Witness ==
    /\ Sectioned /\ proc = "done" /\ driver = "quit"
    /\ \E k \in 1..Len(trace) : trace[k][1] = "critical"
    /\ DOMAIN results = {ToString(1)}
    /\ tm_id = 2
    /\ trace[Len(trace)] = <<"quit">>

\* C25: in the Direct harvester ok grows exactly at the step that completes
\* save_json for a value fetch_one returned that is not None, and after it
\* id_<N>.json holds the serialisation of that value and parses back to it;
\* save_json runs for such a value only; a step that counts an id as missing,
\* failed or skipped changes no file, and id_<M>.json of any other id, or of
\* this id at any other step, is neither created, replaced nor deleted: a
\* file left by an earlier run stays as it was when resume is off.
C25_OkIffSaved ==
    [][Running /\ proc' = "running" =>
            /\ (ok' # ok <=> pc = "save_replace")
            /\ (ok' # ok =>
                   /\ ok' = ok + 1 /\ data # None
                   /\ fs'.canon[tm_id] = Dump(data)
                   /\ Parse(fs'.canon[tm_id]) = data)
            /\ (missing' # missing \/ failed' # failed \/ skipped' # skipped => fs' = fs)
            /\ (pc' = "save_mkdir" => data' # None /\ resp' # NoResp /\ data' = TryUrl(resp'))
            /\ (Saving => data # None /\ data' = data)
            /\ \A n \in Ids :
                 fs'.canon[n] # fs.canon[n] => n = tm_id /\ pc = "save_replace"]_vars

C25_Witness ==
    /\ Running /\ run = 2 /\ ~args.resume /\ pc = "sleep" /\ missing = 1 /\ ok = 1
    /\ data = None /\ resp.status = 404
    /\ fs.canon[tm_id] = Dump(Dict({"id"}))

\* the requests sent for the current id, in order: TRUE with the dl flag
Gets ==
    LET G == SelectSeq(trace, LAMBDA e : e[1] = "get")
    IN [k \in 1..Len(G) |-> G[k][3]]

\* C28: in mode auto an exception raised by session.get of the request with
\* the dl flag ends fetch_one: the id is counted as failed and the next request
\* is for another id; the request without the flag is sent only after the
\* first one returned a response from which try_url made None; an exception
\* raised by that second request counts the id as failed too.
C28_AutoTransportError ==
    /\ [][Running /\ args.method = "auto" /\ proc' = "running" =>
            /\ (Fetching /\ resp' = NoResp =>
                   /\ failed' = failed + 1 /\ UNCHANGED <<ok, missing, skipped>>
                   /\ pc' = "sleep_exc" /\ fs' = fs)
            /\ (pc = "sleep_exc" => pc' = "loop" /\ ~IssuesGet)
            /\ (pc' = "fetch2" =>
                   /\ pc = "fetch1" /\ resp' # NoResp /\ TryUrl(resp') = None
                   /\ data' = None /\ UNCHANGED counters)
            /\ (pc = "fetch2" => IssuesGet /\ trace' = trace \o << <<"get", tm_id, FALSE>> >>)]_vars
    /\ [](Running /\ args.method = "auto" =>
            /\ IsPrefix(Gets, <<TRUE, FALSE>>)
            /\ (pc = "fetch2" => Gets = <<TRUE>> /\ resp # NoResp /\ data = None)
            /\ (Gets = <<TRUE, FALSE>> => pc # "fetch1"))

C28_Witness ==
    /\ Running /\ args.method = "auto" /\ pc = "loop" /\ tm_id = 2
    /\ failed = 2
    /\ trace = << <<"get", 2, TRUE>>, <<"sleep", 2>> >>

\* C26: the captcha pause is a countdown and nothing else: it starts at
\* GateSeconds, loses one second per step, and the id loop is entered at zero
\* and not before, whether the challenge was passed or not; passing the
\* challenge moves nothing in the program; and a run that waits always
\* reaches the id loop.
C26_FixedWait ==
    /\ [][Scraper =>
            /\ (pc = "gate_load" /\ pc' = "gate_wait" =>
                   countdown' = GateSeconds /\ challenge' = "pending")
            /\ (pc = "gate_wait" /\ challenge' = challenge =>
                   IF countdown > 0
                   THEN pc' = "gate_wait" /\ countdown' = countdown - 1
                   ELSE pc' = "loop" /\ it' = args.start /\ trace' = trace)
            /\ (challenge' # challenge =>
                   UNCHANGED <<pc, countdown, it, tm_id, trace, driver, proc>>)]_vars
    /\ (Sectioned /\ pc = "gate_wait" ~> pc = "loop" /\ countdown = 0)

C26_Witness ==
    /\ Sectioned /\ pc = "main_load" /\ tm_id = args.start
    /\ challenge = "pending" /\ countdown = 0
    /\ trace = << <<"load", 1, "gate">> >>

\* C27: a Direct run that has entered the id loop hands out the ids of the
\* range one after the other, each once, and, unless it is killed from
\* outside, ends only when the range is exhausted, with every id counted,
\* by the summary of the four counters; and it does end.
C27_Terminates ==
    /\ [][Running /\ proc' = "running" /\ Visit =>
            /\ tm_id' = it /\ it' = it + Step(args.start, args.end)
            /\ Total = Yielded]_vars
    /\ [][Running /\ pc # "robots" /\ proc' \notin {"running", "killed"} =>
            /\ proc' = "done" /\ pc = "loop" /\ Exhausted(it)
            /\ Total = Abs(args.end - args.start) + 1]_vars
    /\ (Running /\ pc # "robots" ~> proc \in {"done", "killed"})

\* the first element of the page with the id of the text block, if any
Anchors == SelectSeq(TagsOf(document), LAMBDA x : x.id = "words-full-text")

\* what a reader sees of a sequence of nodes: the characters of the text
\* outside the tooltips, a line feed for every <br>
RECURSIVE Visible(_)
Visible(kids) ==
    IF kids = <<>> THEN <<>>
    ELSE LET h == Head(kids) IN
         (IF h.name = "#text" THEN h.text
          ELSE IF h.name = "br" THEN <<LF>>
          ELSE IF h.name = "span" /\ h.class = "tooltiptext" THEN <<>>
          ELSE Visible(h.kids)) \o Visible(Tail(kids))

\* the characters of the tooltips below a sequence of nodes
TooltipChars(kids) ==
    LET tips == SelectSeq(TagsOf(kids), LAMBDA x : x.name = "span" /\ x.class = "tooltiptext")
    IN UNION {{GetText(tips[i], <<>>, FALSE)[k] : k \in 1..Len(GetText(tips[i], <<>>, FALSE))} :
                 i \in 1..Len(tips)}

\* the lines of a text that are more than blanks, trimmed
NonBlank(text) ==
    LET lines == Split(text)
    IN SelectSeq([i \in 1..Len(lines) |-> Strip(lines[i], Whitespace)], LAMBDA l : l # <<>>)

\* C21: extract_greek_text returns None when the page has no element with the
\* id words-full-text; otherwise it returns a string that holds no character
\* of a tooltip, whose lines are all non-empty and start and end with
\* something else than a blank, and whose lines are, in order, the non-blank
\* lines of the visible text of the block, a <br> ending a line as a line
\* feed does.
C21_GreekText ==
    pc = "extract_greek_text" =>
        IF Anchors = <<>> THEN value = NoString
        ELSE /\ value.kind = "str"
             /\ \A k \in 1..Len(value.text) : value.text[k] \notin TooltipChars(Anchors[1].kids)
             /\ (value.text # <<>> =>
                   \A i \in 1..Len(Split(value.text)) :
                      LET line == Split(value.text)[i] IN
                      /\ line # <<>>
                      /\ line[1] \notin Whitespace /\ line[Len(line)] \notin Whitespace)
             /\ (IF value.text = <<>> THEN <<>> ELSE Split(value.text))
                    = NonBlank(Visible(Anchors[1].kids))

C21_Witness ==
    /\ pc = "extract_greek_text" /\ Len(document) = 2
    /\ document[1] = Tag("p", "", << Text(<<"help">>) >>)
    /\ TooltipChars(document[2].kids) = {"help"}
    /\ value = Str(<<"alpha", LF, "beta", " ", "gamma", LF, "alpha">>)

ListExtractors ==
    {"extract_publications", "extract_collections", "extract_archive",
     "extract_people", "extract_places", "extract_irregularities"}

\* id of the container an extractor reads
ContainerId(f) ==
    IF f = "extract_publications" THEN "text-publs"
    ELSE IF f = "extract_collections" THEN "text-coll"
    ELSE IF f = "extract_archive" THEN "text-arch"
    ELSE IF f = "extract_people" THEN "people-list"
    ELSE IF f = "extract_places" THEN "places-list"
    ELSE "texirr-list"

\* the elements of the page with the id of the container of extractor f
Containers(f) == SelectSeq(TagsOf(document), LAMBDA x : x.id = ContainerId(f))

\* the nodes without the headings and the icons
RECURSIVE Body(_)
Body(kids) ==
    IF kids = <<>> THEN <<>>
    ELSE LET h == Head(kids) IN
         (IF h.name = "#text" THEN <<h>>
          ELSE IF h.name = "h4" \/ h.name = "i" THEN <<>>
          ELSE <<[h EXCEPT !.kids = Body(h.kids)]>>) \o Body(Tail(kids))

\* the items of a container, trimmed, empty ones included: the paragraphs of
\* publications and archive, the large list items of people, places and
\* irregularities, the lines of collections (a <br> ends a line) without
\* their leading bullet
ItemsOf(f, container) ==
    LET kids == Body(container.kids)
        elems == IF f \in {"extract_publications", "extract_archive"}
                 THEN SelectSeq(TagsOf(kids), LAMBDA x : x.name = "p")
                 ELSE SelectSeq(TagsOf(kids), LAMBDA x : x.name = "li" /\ x.class = "item-large")
        lines == Split(Visible(kids))
    IN IF f = "extract_collections"
       THEN [i \in 1..Len(lines) |->
                Strip(LStrip(Strip(lines[i], Whitespace), Bullets), Whitespace)]
       ELSE [i \in 1..Len(elems) |-> Strip(Visible(elems[i].kids), Whitespace)]

\* the words of a text, blanks apart
Words(text) == SelectSeq(text, LAMBDA c : c \notin Whitespace)

\* C22: a list extractor returns the empty list when the page has no
\* container of its id; otherwise it returns the list of the items of the
\* first such container that are not empty once trimmed: none is left out,
\* none is added or cut in two, they come in the order of the page, an item
\* that occurs twice is returned twice, and every item returned is trimmed.
C22_ListExtractors ==
    pc \in ListExtractors =>
        /\ value.kind = "list"
        /\ IF Containers(pc) = <<>> THEN value.text = <<>>
           ELSE LET items == SelectSeq(ItemsOf(pc, Containers(pc)[1]), LAMBDA t : t # <<>>) IN
                /\ Len(value.text) = Len(items)
                /\ \A i \in 1..Len(value.text) :
                     /\ value.text[i] # <<>>
                     /\ Strip(value.text[i], Whitespace) = value.text[i]
                     /\ i <= Len(items) => Words(value.text[i]) = Words(items[i])
====
